---- MODULE Spec2Model ----
(***************************************************************************)
(* kivy.uix.boxlayout.BoxLayout: the layout pass (_iterate_layout,         *)
(* do_layout) and the property changes that invalidate it.                 *)
(*                                                                         *)
(* Numbers.  The source computes in Python numbers (ints and floats).      *)
(* They are modelled as exact rationals <<n, d>> with d > 0 in lowest      *)
(* terms, so that the division of the stretch space is a real division     *)
(* and not the identity; IEEE rounding is not modelled.  Python's None is  *)
(* the pair <<0, 0>> (the only pair with denominator 0).                   *)
(***************************************************************************)
EXTENDS Integers, Sequences, FiniteSets, TLC

\* ------------------------------------------------------------- bounds
\* children of the layout whose properties change between passes (Spec)
MaxChildren == 2
\* property changes batched before the pending layout pass runs (Spec)
MaxPending == 1
\* length of the children list handed to one layout pass (SpecLayout)
MaxSizes == 3

\* ------------------------------------------------------------- numbers
Abs(i) == IF i < 0 THEN -i ELSE i

RECURSIVE GCD(_, _)
GCD(a, b) == IF b = 0 THEN a ELSE GCD(b, a % b)

Norm(n, d) ==
    IF d = 1 THEN <<n, 1>>
    ELSE IF n = 0 THEN <<0, 1>>
    ELSE LET g == GCD(Abs(n), d) IN <<n \div g, d \div g>>

Q(n, d) == Norm(n, d)
R(i) == <<i, 1>>
Zero == <<0, 1>>
None == <<0, 0>>
IsNone(a) == a[2] = 0

\* (integers take the short way; the result is the same)
RAdd(a, b) ==
    IF a[2] = 1 /\ b[2] = 1 THEN <<a[1] + b[1], 1>>
    ELSE Norm(a[1] * b[2] + b[1] * a[2], a[2] * b[2])
RSub(a, b) ==
    IF a[2] = 1 /\ b[2] = 1 THEN <<a[1] - b[1], 1>>
    ELSE Norm(a[1] * b[2] - b[1] * a[2], a[2] * b[2])
RMul(a, b) ==
    IF a[2] = 1 /\ b[2] = 1 THEN <<a[1] * b[1], 1>>
    ELSE Norm(a[1] * b[1], a[2] * b[2])
\* a / b for b # 0 (the caller decides what a zero divisor does)
RDiv(a, b) ==
    IF b[1] > 0 THEN Norm(a[1] * b[2], a[2] * b[1])
    ELSE Norm(-(a[1] * b[2]), a[2] * (-b[1]))
RLe(a, b) == a[1] * b[2] <= b[1] * a[2]
RLt(a, b) == a[1] * b[2] < b[1] * a[2]
\* Python's max(a, b): the first of the largest
RMax(a, b) == IF RLt(a, b) THEN b ELSE a

\* Python truthiness of a size hint: None and 0 are false
Truthy(a) == ~IsNone(a) /\ a[1] # 0

\* ------------------------------------------------------------- state
VARIABLES
    children,       \* self.children: sequence of child widgets, each
                    \* [size, size_hint, pos_hint, pos]
    padding,        \* <<left, top, right, bottom>>
    spacing,
    orientation,    \* "horizontal" | "vertical"
    size,           \* <<self.width, self.height>>
    pos,            \* <<self.x, self.y>>
    minimum_size,   \* <<minimum_width, minimum_height>>
    raised,         \* the last do_layout ended in ZeroDivisionError
    pending         \* property changes since the last do_layout (the
                    \* triggers bound in __init__ and add_widget)

vars == <<children, padding, spacing, orientation, size, pos,
          minimum_size, raised, pending>>

\* The layout's own properties, as _iterate_layout reads them from self
Self == [padding |-> padding, spacing |-> spacing,
         orientation |-> orientation, size |-> size, pos |-> pos]

\* ------------------------------------------------------------- _iterate_layout
padding_x(self) == RAdd(self.padding[1], self.padding[3])
padding_y(self) == RAdd(self.padding[2], self.padding[4])

\* Sum of f[j] over j in 1..n
RECURSIVE RSum(_, _)
RSum(f, n) == IF n = 0 THEN Zero ELSE RAdd(RSum(f, n - 1), f[n])

\* Running max(acc, f[j]) over j in 1..n, starting from 0
RECURSIVE RMaxAll(_, _)
RMaxAll(f, n) == IF n = 0 THEN Zero ELSE RMax(RMaxAll(f, n - 1), f[n])

\* stretch_weight_x, stretch_weight_y: each orientation accumulates only
\* its main axis
StretchWeight(self, sizes) ==
    LET n == Len(sizes)
        wx == [j \in 1..n |-> IF IsNone(sizes[j].size_hint[1]) THEN Zero
                              ELSE sizes[j].size_hint[1]]
        wy == [j \in 1..n |-> IF IsNone(sizes[j].size_hint[2]) THEN Zero
                              ELSE sizes[j].size_hint[2]]
    IN  IF self.orientation = "horizontal"
        THEN <<RSum(wx, n), Zero>>
        ELSE <<Zero, RSum(wy, n)>>

\* (mutant) one gap per child instead of one between neighbours
MinimumSize_GapPerChild(self, sizes) ==
    LET n == Len(sizes)
        fw == [j \in 1..n |-> IF IsNone(sizes[j].size_hint[1])
                              THEN sizes[j].size[1] ELSE Zero]
        fh == [j \in 1..n |-> IF IsNone(sizes[j].size_hint[2])
                              THEN sizes[j].size[2] ELSE Zero]
        gaps == RMul(self.spacing, R(n))
    IN  IF self.orientation = "horizontal"
        THEN <<RAdd(RAdd(padding_x(self), gaps), RSum(fw, n)),
               RAdd(RMaxAll(fh, n), padding_y(self))>>
        ELSE <<RAdd(RMaxAll(fw, n), padding_x(self)),
               RAdd(RAdd(padding_y(self), gaps), RSum(fh, n))>>

\* minimum_size_x, minimum_size_y
MinimumSize(self, sizes) ==
    LET n == Len(sizes)
        fw == [j \in 1..n |-> IF IsNone(sizes[j].size_hint[1])
                              THEN sizes[j].size[1] ELSE Zero]
        fh == [j \in 1..n |-> IF IsNone(sizes[j].size_hint[2])
                              THEN sizes[j].size[2] ELSE Zero]
        gaps == RMul(self.spacing, R(n - 1))
    IN  IF self.orientation = "horizontal"
        THEN <<RAdd(RAdd(padding_x(self), gaps), RSum(fw, n)),
               RAdd(RMaxAll(fh, n), padding_y(self))>>
        ELSE <<RAdd(RMaxAll(fw, n), padding_x(self)),
               RAdd(RAdd(padding_y(self), gaps), RSum(fh, n))>>

\* ---- the horizontal loop
\* (mutant) the whole width is shared, the fixed children not subtracted
HStretchSpace_WholeWidth(self, minimum_size_x) ==
    RMax(Zero, self.size[1])

\* stretch_space = max(0.0, selfw - minimum_size_x)
HStretchSpace(self, minimum_size_x) ==
    RMax(Zero, RSub(self.size[1], minimum_size_x))

\* (mutant) `if shw is not None:` instead of `if shw:`
HRaises_NotNone(c, stretch_weight_x) ==
    ~IsNone(c.size_hint[1]) /\ stretch_weight_x[1] = 0

\* `if shw:` is taken and the division raises ZeroDivisionError
HRaises(c, stretch_weight_x) ==
    Truthy(c.size_hint[1]) /\ stretch_weight_x[1] = 0

\* (mutant) `w +=` instead of `w =`
HWidth_Accumulate(c, stretch_space, stretch_weight_x) ==
    IF Truthy(c.size_hint[1]) /\ stretch_weight_x[1] # 0
    THEN RAdd(c.size[1],
              RDiv(RMul(stretch_space, c.size_hint[1]), stretch_weight_x))
    ELSE c.size[1]

\* w of child c after `if shw: w = stretch_space * shw / stretch_weight_x`
\* (the value is irrelevant where HRaises holds: nothing is yielded)
HWidth(c, stretch_space, stretch_weight_x) ==
    IF Truthy(c.size_hint[1]) /\ stretch_weight_x[1] # 0
    THEN RDiv(RMul(stretch_space, c.size_hint[1]), stretch_weight_x)
    ELSE c.size[1]

\* h of child c after `if shh: h = max(0, shh * (selfh - padding_y))`
HHeight(self, c) ==
    IF Truthy(c.size_hint[2])
    THEN RMax(Zero, RMul(c.size_hint[2],
                         RSub(self.size[2], padding_y(self))))
    ELSE c.size[2]

\* (mutant) center_y anchors the top edge: h instead of h / 2
HPosHintItem_CenterFull(self, key, value, h) ==
    LET posy == RMul(value, RSub(self.size[2], padding_y(self)))
    IN  IF key = "y" THEN posy
        ELSE IF key = "top" THEN RSub(posy, h)
        ELSE IF key = "center_y" THEN RSub(posy, h)
        ELSE Zero

\* What one pos_hint item adds to cy; h is the child's resolved height
HPosHintItem(self, key, value, h) ==
    LET posy == RMul(value, RSub(self.size[2], padding_y(self)))
    IN  IF key = "y" THEN posy
        ELSE IF key = "top" THEN RSub(posy, h)
        ELSE IF key = "center_y" THEN RSub(posy, RDiv(h, R(2)))
        ELSE Zero

\* The whole `for key, value in pos_hint.items()` loop: the items only add
\* to cy, so their order does not matter
RECURSIVE HPosHint(_, _, _, _)
HPosHint(self, ph, keys, h) ==
    IF keys = {} THEN Zero
    ELSE LET k == CHOOSE x \in keys : TRUE
         IN  RAdd(HPosHintItem(self, k, ph[k], h),
                  HPosHint(self, ph, keys \ {k}, h))

\* (mutant) enumerate(sizes): the list is not reversed
HIndex_Forward(n, k) == k

\* The child (1-based) visited at step k of enumerate(reversed(sizes)),
\* which is also the index yielded: len_children - i - 1
HIndex(n, k) == n - k + 1

\* The cursor x when step k starts: x = padding_left, then
\* x += w + spacing after each yield
RECURSIVE HCursor(_, _, _, _, _)
HCursor(self, sizes, k, stretch_space, stretch_weight_x) ==
    IF k = 1 THEN self.padding[1]
    ELSE RAdd(HCursor(self, sizes, k - 1, stretch_space, stretch_weight_x),
              RAdd(HWidth(sizes[HIndex(Len(sizes), k - 1)],
                          stretch_space, stretch_weight_x),
                   self.spacing))

\* The tuple yielded at step k: <<index, cx, cy, w, h>>
HYield(self, sizes, k, stretch_space, stretch_weight_x) ==
    LET j == HIndex(Len(sizes), k)
        c == sizes[j]
        h == HHeight(self, c)
    IN  <<j,
          RAdd(self.pos[1],
               HCursor(self, sizes, k, stretch_space, stretch_weight_x)),
          RAdd(RAdd(self.pos[2], self.padding[4]),
               HPosHint(self, c.pos_hint, DOMAIN c.pos_hint, h)),
          HWidth(c, stretch_space, stretch_weight_x),
          h>>

\* ---- the vertical loop
\* (mutant) the stretch space is not clamped at 0
VStretchSpace_Unclamped(self, minimum_size_y) ==
    RSub(self.size[2], minimum_size_y)

\* stretch_space = max(0.0, selfh - minimum_size_y)
VStretchSpace(self, minimum_size_y) ==
    RMax(Zero, RSub(self.size[2], minimum_size_y))

\* `if shh:` is taken and the division raises ZeroDivisionError
VRaises(c, stretch_weight_y) ==
    Truthy(c.size_hint[2]) /\ stretch_weight_y[1] = 0

\* h of child c after `if shh: h = stretch_space * shh / stretch_weight_y`
VHeight(c, stretch_space, stretch_weight_y) ==
    IF Truthy(c.size_hint[2]) /\ stretch_weight_y[1] # 0
    THEN RDiv(RMul(stretch_space, c.size_hint[2]), stretch_weight_y)
    ELSE c.size[2]

\* (mutant) the horizontal loop's padding_y left in the vertical loop
VWidth_PaddingY(self, c) ==
    IF Truthy(c.size_hint[1])
    THEN RMax(Zero, RMul(c.size_hint[1],
                         RSub(self.size[1], padding_y(self))))
    ELSE c.size[1]

\* w of child c after `if shw: w = max(0, shw * (selfw - padding_x))`
VWidth(self, c) ==
    IF Truthy(c.size_hint[1])
    THEN RMax(Zero, RMul(c.size_hint[1],
                         RSub(self.size[1], padding_x(self))))
    ELSE c.size[1]

\* What one pos_hint item adds to cx; w is the child's resolved width
VPosHintItem(self, key, value, w) ==
    LET posx == RMul(value, RSub(self.size[1], padding_x(self)))
    IN  IF key = "x" THEN posx
        ELSE IF key = "right" THEN RSub(posx, w)
        ELSE IF key = "center_x" THEN RSub(posx, RDiv(w, R(2)))
        ELSE Zero

RECURSIVE VPosHint(_, _, _, _)
VPosHint(self, ph, keys, w) ==
    IF keys = {} THEN Zero
    ELSE LET k == CHOOSE x \in keys : TRUE
         IN  RAdd(VPosHintItem(self, k, ph[k], w),
                  VPosHint(self, ph, keys \ {k}, w))

\* The child visited at step k of enumerate(sizes), also the index yielded
VIndex(n, k) == k

\* The cursor y when step k starts: y = padding_bottom, then
\* y += h + spacing after each yield
RECURSIVE VCursor(_, _, _, _, _)
VCursor(self, sizes, k, stretch_space, stretch_weight_y) ==
    IF k = 1 THEN self.padding[4]
    ELSE RAdd(VCursor(self, sizes, k - 1, stretch_space, stretch_weight_y),
              RAdd(VHeight(sizes[VIndex(Len(sizes), k - 1)],
                           stretch_space, stretch_weight_y),
                   self.spacing))

\* The tuple yielded at step k: <<index, cx, cy, w, h>>
VYield(self, sizes, k, stretch_space, stretch_weight_y) ==
    LET j == VIndex(Len(sizes), k)
        c == sizes[j]
        w == VWidth(self, c)
    IN  <<j,
          RAdd(RAdd(self.pos[1], self.padding[1]),
               VPosHint(self, c.pos_hint, DOMAIN c.pos_hint, w)),
          RAdd(self.pos[2],
               VCursor(self, sizes, k, stretch_space, stretch_weight_y)),
          w,
          VHeight(c, stretch_space, stretch_weight_y)>>

\* ---- the generator run to its end: the minimum size it sets, the tuples
\* it yields in order, and whether it stopped in ZeroDivisionError
IterateLayout(self, sizes) ==
    LET n == Len(sizes)
        horiz == self.orientation = "horizontal"
        ms == MinimumSize(self, sizes)
        sw == StretchWeight(self, sizes)
        hs == HStretchSpace(self, ms[1])
        vs == VStretchSpace(self, ms[2])
        bad == {k \in 1..n :
                  IF horiz THEN HRaises(sizes[HIndex(n, k)], sw[1])
                  ELSE VRaises(sizes[VIndex(n, k)], sw[2])}
        m == IF bad = {} THEN n
             ELSE (CHOOSE k \in bad : \A l \in bad : k <= l) - 1
    IN  [minimum_size |-> ms,
         out |-> SubSeq([k \in 1..m |->
                           IF horiz THEN HYield(self, sizes, k, hs, sw[1])
                           ELSE VYield(self, sizes, k, vs, sw[2])], 1, m),
         raised |-> bad # {}]

\* ------------------------------------------------------------- do_layout
\* (mutant) `c.width = h` where the source has `c.height = h`
WriteBack_WidthFromHeight(c, g) ==
    LET shw == c.size_hint[1]
        shh == c.size_hint[2]
    IN  [c EXCEPT
           !.pos = <<g[2], g[3]>>,
           !.size = IF IsNone(shw)
                    THEN (IF ~IsNone(shh) THEN <<g[5], c.size[2]>>
                          ELSE c.size)
                    ELSE (IF IsNone(shh) THEN <<g[4], c.size[2]>>
                          ELSE <<g[4], g[5]>>)]

\* The body of the for loop: c.pos always, and only the size components
\* whose hint is not None
WriteBack(c, g) ==
    LET shw == c.size_hint[1]
        shh == c.size_hint[2]
    IN  [c EXCEPT
           !.pos = <<g[2], g[3]>>,
           !.size = IF IsNone(shw)
                    THEN (IF ~IsNone(shh) THEN <<c.size[1], g[5]>>
                          ELSE c.size)
                    ELSE (IF IsNone(shh) THEN <<g[4], c.size[2]>>
                          ELSE <<g[4], g[5]>>)]

\* What do_layout leaves behind: self.children (the children yielded before
\* a possible ZeroDivisionError are written, the others are left alone),
\* self.minimum_size, and whether the exception escaped
DoLayoutResult(self, ch) ==
    IF ch = <<>>
    THEN [children |-> ch,
          minimum_size |-> <<RAdd(self.padding[1], self.padding[3]),
                             RAdd(self.padding[2], self.padding[4])>>,
          raised |-> FALSE]
    ELSE LET r == IterateLayout(self, ch)
             out == r.out
         IN  [children |->
                [i \in 1..Len(ch) |->
                   IF \E k \in DOMAIN out : out[k][1] = i
                   THEN WriteBack(ch[i],
                          out[CHOOSE k \in DOMAIN out : out[k][1] = i])
                   ELSE ch[i]],
              minimum_size |-> r.minimum_size,
              raised |-> r.raised]

DoLayout ==
    /\ LET r == DoLayoutResult(Self, children)
       IN  /\ children' = r.children
           /\ minimum_size' = r.minimum_size
           /\ raised' = r.raised
    /\ pending' = 0
    /\ UNCHANGED <<padding, spacing, orientation, size, pos>>

\* ------------------------------------------------------------- inputs
Widget(w, h, shw, shh, ph) ==
    [size |-> <<R(w), R(h)>>, size_hint |-> <<shw, shh>>,
     pos_hint |-> ph, pos |-> <<Zero, Zero>>]

NoHint == [k \in {} |-> Zero]

\* The widgets a layout pass is run on: fixed, stretched, zero-hinted,
\* mixed and negatively hinted ones, with and without positional hints,
\* one with a negative fixed height
Widgets ==
    { Widget(200, 100, None, None, NoHint),
      Widget(100, 100, Q(1, 2), R(1), NoHint),
      Widget(100, 100, Q(7, 10), R(1), NoHint),
      Widget(100, 100, Q(3, 10), R(1), NoHint),
      Widget(50, 40, Zero, Zero, ("top" :> R(1)) @@ ("right" :> R(1))),
      Widget(850, 30, None, Q(1, 2),
             ("center_y" :> Q(1, 2)) @@ ("center_x" :> Q(1, 2))),
      Widget(60, -10, Q(-1, 2), None,
             ("y" :> Q(1, 4)) @@ ("x" :> Q(1, 4)) @@ ("z" :> Q(1, 2))) }

\* The widgets added to and removed from a living layout
DynWidgets ==
    { Widget(200, 100, None, None, NoHint),
      Widget(50, 40, Q(1, 2), Zero, ("top" :> R(1)) @@ ("right" :> R(1))),
      Widget(850, 30, None, Q(1, 2),
             ("center_y" :> Q(1, 2)) @@ ("center_x" :> Q(1, 2))),
      Widget(60, -10, Q(1, 2), None,
             ("y" :> Q(1, 4)) @@ ("x" :> Q(1, 4)) @@ ("z" :> Q(1, 2))) }

DefaultSize == <<R(100), R(100)>>
Sizes == { <<R(800), R(600)>>, <<R(1000), R(40)>> }
DynSizes == { DefaultSize, <<R(1000), R(40)>> }
Positions == { <<Zero, Zero>>, <<R(30), R(40)>> }
Paddings == { <<Zero, Zero, Zero, Zero>>, <<R(60), R(30), R(50), R(20)>> }
Spacings == { Zero, R(10) }
Orientations == { "horizontal", "vertical" }

\* ------------------------------------------------------------- changes
\* Every change calls _trigger_layout: a layout pass is pending
Changed == /\ pending < MaxPending
           /\ pending' = pending + 1
           /\ UNCHANGED <<minimum_size, raised>>

InsertAt(seq, index, w) ==
    SubSeq(seq, 1, index) \o <<w>> \o SubSeq(seq, index + 1, Len(seq))

RemoveAt(seq, i) == SubSeq(seq, 1, i - 1) \o SubSeq(seq, i + 1, Len(seq))

AddWidget ==
    /\ Len(children) < MaxChildren
    /\ \E w \in DynWidgets, index \in 0..Len(children) :
          children' = InsertAt(children, index, w)
    /\ Changed
    /\ UNCHANGED <<padding, spacing, orientation, size, pos>>

RemoveWidget ==
    /\ \E i \in 1..Len(children) : children' = RemoveAt(children, i)
    /\ Changed
    /\ UNCHANGED <<padding, spacing, orientation, size, pos>>

SetSpacing ==
    /\ \E v \in Spacings \ {spacing} : spacing' = v
    /\ Changed
    /\ UNCHANGED <<children, padding, orientation, size, pos>>

SetPadding ==
    /\ \E v \in Paddings \ {padding} : padding' = v
    /\ Changed
    /\ UNCHANGED <<children, spacing, orientation, size, pos>>

SetOrientation ==
    /\ \E v \in Orientations \ {orientation} : orientation' = v
    /\ Changed
    /\ UNCHANGED <<children, padding, spacing, size, pos>>

SetSize ==
    /\ \E v \in DynSizes \ {size} : size' = v
    /\ Changed
    /\ UNCHANGED <<children, padding, spacing, orientation, pos>>

SetPos ==
    /\ \E v \in Positions \ {pos} : pos' = v
    /\ Changed
    /\ UNCHANGED <<children, padding, spacing, orientation, size>>

\* ------------------------------------------------------------- specification
Init ==
    /\ children = <<>>
    /\ padding = <<Zero, Zero, Zero, Zero>>
    /\ spacing = Zero
    /\ orientation = "horizontal"
    /\ size = DefaultSize
    /\ pos = <<Zero, Zero>>
    /\ minimum_size = <<Zero, Zero>>
    /\ raised = FALSE
    /\ pending = 0

Next ==
    \/ DoLayout
    \/ AddWidget
    \/ RemoveWidget
    \/ SetSpacing
    \/ SetPadding
    \/ SetOrientation
    \/ SetSize
    \/ SetPos

Spec == Init /\ [][Next]_vars

\* One layout pass as a function of its inputs: any children list and any
\* layout properties, as built by the constructor's keyword arguments and
\* add_widget, with the pass they trigger still pending
InitLayout ==
    /\ children \in UNION {[1..n -> Widgets] : n \in 0..MaxSizes}
    /\ padding \in Paddings
    /\ spacing \in Spacings
    /\ orientation \in Orientations
    /\ size \in Sizes
    /\ pos = <<R(30), R(40)>>
    /\ minimum_size = <<Zero, Zero>>
    /\ raised = FALSE
    /\ pending = 1

NextLayout == DoLayout

SpecLayout == InitLayout /\ [][NextLayout]_vars

\* ------------------------------------------------------------- properties
N == Len(children)
Horizontal == orientation = "horizontal"
\* a layout pass has run to its end since the last change
Done == pending = 0 /\ ~raised
PadX == RAdd(padding[1], padding[3])
PadY == RAdd(padding[2], padding[4])
Positive(a) == ~IsNone(a) /\ a[1] > 0
NonNegativeHints ==
    \A j \in 1..N : \A a \in 1..2 :
        IsNone(children[j].size_hint[a]) \/ children[j].size_hint[a][1] >= 0

\* the largest element of a non-empty set of numbers
SetMax(S) == CHOOSE x \in S : \A y \in S : RLe(y, x)
\* sum and largest of the fixed extents on axis a (hint None), 0 included
FixedSum(a) ==
    RSum([j \in 1..N |-> IF IsNone(children[j].size_hint[a])
                         THEN children[j].size[a] ELSE Zero], N)
FixedMax(a) ==
    SetMax({Zero} \cup {children[j].size[a] :
                          j \in {i \in 1..N : IsNone(children[i].size_hint[a])}})
\* sum of the present hints on axis a
HintSum(a) ==
    RSum([j \in 1..N |-> IF IsNone(children[j].size_hint[a]) THEN Zero
                         ELSE children[j].size_hint[a]], N)
Gaps == RMul(spacing, R(N - 1))

\* C1: after do_layout the minimum size is padding + spacing*(n-1) + the sum
\* of the fixed extents on the main axis and padding + max(0, the largest
\* fixed extent) on the cross axis; with no children it is the padding alone
\* and there is no child geometry
C1_MinimumSize ==
    pending = 0 =>
        IF N = 0
        THEN minimum_size = <<PadX, PadY>> /\ children = <<>>
        ELSE IF Horizontal
        THEN minimum_size = <<RAdd(RAdd(PadX, Gaps), FixedSum(1)),
                              RAdd(PadY, FixedMax(2))>>
        ELSE minimum_size = <<RAdd(PadX, FixedMax(1)),
                              RAdd(RAdd(PadY, Gaps), FixedSum(2))>>

C1_Witness ==
    /\ pending = 0 /\ N = 3 /\ Horizontal
    /\ spacing # Zero /\ padding[1] # Zero
    /\ \E j \in 1..N : IsNone(children[j].size_hint[1])
    /\ \E j \in 1..N : IsNone(children[j].size_hint[2])
                       /\ children[j].size[2] # Zero
    /\ \E j \in 1..N : ~IsNone(children[j].size_hint[1])

\* the share of the main-axis stretch space of a child hinted sh on axis a
Share(a, sh) ==
    RDiv(RMul(RMax(Zero, RSub(size[a], minimum_size[a])), sh), HintSum(a))
\* the cross-axis extent of a child hinted sh on axis a
Cross(a, sh) ==
    RMax(Zero, RMul(sh, RSub(size[a], IF a = 1 THEN PadX ELSE PadY)))

C2_General ==
    Done =>
        \A j \in 1..N :
            LET c == children[j]
                main == IF Horizontal THEN 1 ELSE 2
                cross == IF Horizontal THEN 2 ELSE 1
            IN  /\ Positive(c.size_hint[main]) =>
                      c.size[main] = Share(main, c.size_hint[main])
                /\ Positive(c.size_hint[cross]) =>
                      c.size[cross] = Cross(cross, c.size_hint[cross])

NoPaddingNoSpacing ==
    padding = <<Zero, Zero, Zero, Zero>> /\ spacing = Zero

C2_Scenario70 ==
    /\ Done /\ Horizontal /\ N = 2 /\ NoPaddingNoSpacing
    /\ size[1] = R(1000)
    /\ children[1].size_hint = <<Q(7, 10), R(1)>>
    /\ children[2].size_hint = <<Q(3, 10), R(1)>>

C2_Scenario200 ==
    /\ Done /\ Horizontal /\ N = 3 /\ NoPaddingNoSpacing
    /\ size[1] = R(800)
    /\ children[1].size_hint = <<None, None>>
    /\ children[1].size = <<R(200), R(100)>>
    /\ children[2].size_hint = <<Q(1, 2), R(1)>>
    /\ children[3].size_hint = <<Q(1, 2), R(1)>>

\* C2: a positively hinted child gets its share of the space left by
\* padding, spacing and the fixed children on the main axis, and its hint
\* times the padded container extent on the cross axis; the two documented
\* scenarios give 700/300 and 200/300/300
C2_StretchShare ==
    /\ C2_General
    /\ C2_Scenario70 =>
          /\ children[1].size = <<R(700), size[2]>>
          /\ children[2].size = <<R(300), size[2]>>
    /\ C2_Scenario200 =>
          /\ children[1].size[1] = R(200)
          /\ children[2].size[1] = R(300)
          /\ children[3].size[1] = R(300)

C2_Witness == C2_Scenario200 /\ size[2] = R(600)

\* ---- main-axis conservation
Main == IF Horizontal THEN 1 ELSE 2
\* sum of the children's extents on the main axis, with gaps and padding
MainTotal ==
    RAdd(RAdd(RSum([j \in 1..N |-> children[j].size[Main]], N), Gaps),
         IF Horizontal THEN PadX ELSE PadY)
AllFixedOnMain == \A j \in 1..N : IsNone(children[j].size_hint[Main])
\* the extents kept by the children hinted 0 on the main axis
ZeroHintedSum ==
    RSum([j \in 1..N |-> IF children[j].size_hint[Main] = Zero
                         THEN children[j].size[Main] ELSE Zero], N)

\* C3 as claimed: the extents, gaps and padding add up to the container's
\* extent whenever the stretch-weight sum is positive, or all children are
\* fixed and fit
C3_AsClaimed ==
    (Done /\ N >= 1 /\ NonNegativeHints
       /\ \/ RLt(Zero, HintSum(Main))
          \/ AllFixedOnMain /\ RLe(minimum_size[Main], size[Main]))
    => MainTotal = size[Main]

\* C3 as amended: with non-negative hints and a positive stretch-weight sum
\* the total is the larger of the container's extent and the minimum size,
\* plus the extents kept by the children hinted 0; with all children fixed
\* it is the minimum size
C3_Conservation ==
    (Done /\ N >= 1 /\ NonNegativeHints) =>
        /\ RLt(Zero, HintSum(Main)) =>
              MainTotal = RAdd(RMax(size[Main], minimum_size[Main]),
                               ZeroHintedSum)
        /\ (RLt(Zero, HintSum(Main)) /\ ZeroHintedSum = Zero
              /\ RLe(minimum_size[Main], size[Main])) =>
              MainTotal = size[Main]
        /\ AllFixedOnMain => MainTotal = minimum_size[Main]

C3_Witness ==
    /\ Done /\ N = 3 /\ NonNegativeHints
    /\ RLt(Zero, HintSum(Main)) /\ ZeroHintedSum = Zero
    /\ RLt(minimum_size[Main], size[Main])
    /\ \E j \in 1..N : IsNone(children[j].size_hint[Main])
    /\ spacing # Zero /\ padding[1] # Zero
    /\ MainTotal = size[Main]

\* C5: horizontally the last child is at the leading edge and every other
\* child follows its successor in the list; vertically the first child is
\* at the bottom and every other child follows its predecessor
C5_PlacementOrder ==
    (Done /\ N >= 1) =>
        IF Horizontal
        THEN /\ children[N].pos[1] = RAdd(pos[1], padding[1])
             /\ \A i \in 1..(N - 1) :
                   children[i].pos[1] =
                       RAdd(RAdd(children[i + 1].pos[1],
                                 children[i + 1].size[1]), spacing)
        ELSE /\ children[1].pos[2] = RAdd(pos[2], padding[4])
             /\ \A i \in 1..(N - 1) :
                   children[i + 1].pos[2] =
                       RAdd(RAdd(children[i].pos[2],
                                 children[i].size[2]), spacing)

C5_Witness ==
    /\ Done /\ N = 3 /\ Horizontal /\ spacing # Zero /\ NonNegativeHints
    /\ children[1].size[1] # children[3].size[1]
    /\ children[1].size[1] # Zero /\ children[3].size[1] # Zero
    /\ RLt(children[3].pos[1], children[1].pos[1])

\* ---- positional hints
HasKey(c, key) == key \in DOMAIN c.pos_hint
\* what the entry under key adds, v being the entry's value
Entry(c, key, a, ext) ==
    IF ~HasKey(c, key) THEN Zero
    ELSE LET f == RMul(c.pos_hint[key],
                       RSub(size[a], IF a = 1 THEN PadX ELSE PadY))
         IN  RSub(f, ext)
\* the main-axis extents and gaps before child i in placement order
Before(i) ==
    IF Horizontal
    THEN RSum([j \in 1..N |-> IF j > i
                              THEN RAdd(children[j].size[1], spacing)
                              ELSE Zero], N)
    ELSE RSum([j \in 1..N |-> IF j < i
                              THEN RAdd(children[j].size[2], spacing)
                              ELSE Zero], N)

\* C8: the cross coordinate is the padded container origin plus v*A for
\* y (x), v*A - extent for top (right) and v*A - extent/2 for center_y
\* (center_x); the other keys add nothing and the main coordinate depends
\* on no pos_hint; {center_x: 0.5} centres the child in a vertical layout
C8_PosHint ==
    Done =>
        \A i \in 1..N :
            LET c == children[i]
            IN  IF Horizontal
                THEN /\ c.pos[2] =
                          RAdd(RAdd(pos[2], padding[4]),
                               RAdd(Entry(c, "y", 2, Zero),
                                    RAdd(Entry(c, "top", 2, c.size[2]),
                                         Entry(c, "center_y", 2,
                                               RDiv(c.size[2], R(2))))))
                     /\ c.pos[1] = RAdd(RAdd(pos[1], padding[1]), Before(i))
                ELSE /\ c.pos[1] =
                          RAdd(RAdd(pos[1], padding[1]),
                               RAdd(Entry(c, "x", 1, Zero),
                                    RAdd(Entry(c, "right", 1, c.size[1]),
                                         Entry(c, "center_x", 1,
                                               RDiv(c.size[1], R(2))))))
                     /\ c.pos[2] = RAdd(RAdd(pos[2], padding[4]), Before(i))
                     /\ (HasKey(c, "center_x") /\ c.pos_hint["center_x"] = Q(1, 2)
                           /\ ~HasKey(c, "x") /\ ~HasKey(c, "right")) =>
                          RAdd(c.pos[1], RDiv(c.size[1], R(2))) =
                              RAdd(RAdd(pos[1], padding[1]),
                                   RDiv(RSub(size[1], PadX), R(2)))

C8_Witness ==
    /\ Done /\ ~Horizontal /\ padding[1] # Zero /\ N = 3
    /\ HasKey(children[2], "center_x") /\ HasKey(children[2], "center_y")
    /\ RLt(children[2].size[1], RSub(size[1], PadX))
    /\ HasKey(children[1], "right") /\ HasKey(children[3], "z")

\* ---- division by the stretch-weight sum
\* C9: with non-negative hints the pass never divides by a zero weight sum:
\* wherever the division is executed the sum is positive, the pass does not
\* raise and every child is yielded its geometry
C9_NoZeroDivision ==
    NonNegativeHints =>
        /\ \A j \in 1..N : Truthy(children[j].size_hint[Main]) =>
                              RLt(Zero, HintSum(Main))
        /\ ~DoLayoutResult(Self, children).raised
        /\ N >= 1 =>
              LET out == IterateLayout(Self, children).out
              IN  {out[k][1] : k \in DOMAIN out} = 1..N
        /\ pending = 0 => ~raised

C9_Witness ==
    /\ pending = 0 /\ ~raised /\ N = 2 /\ NonNegativeHints
    /\ \A j \in 1..N : children[j].size_hint[Main] = Zero

\* Not a property of the code: with a negative hint the weights can cancel
\* and the pass raises, so this is violated (C9's premise is needed)
NeverRaised == ~raised

\* C10 as claimed: a child hinted 0 on an axis has extent 0 on that axis
\* after the pass
C10_AsClaimed ==
    (Done /\ NonNegativeHints) =>
        \A j \in 1..N : \A a \in 1..2 :
            children[j].size_hint[a] = Zero => children[j].size[a] = Zero

\* ---- orientation symmetry
SwapKey(k) ==
    CASE k = "y" -> "x" [] k = "x" -> "y"
      [] k = "top" -> "right" [] k = "right" -> "top"
      [] k = "center_y" -> "center_x" [] k = "center_x" -> "center_y"
      [] OTHER -> k
\* the child with its two axes exchanged
SwapWidget(c) ==
    [size |-> <<c.size[2], c.size[1]>>,
     size_hint |-> <<c.size_hint[2], c.size_hint[1]>>,
     pos_hint |-> [k \in {SwapKey(q) : q \in DOMAIN c.pos_hint} |->
                     c.pos_hint[SwapKey(k)]],
     pos |-> <<c.pos[2], c.pos[1]>>]
\* the layout with its two axes exchanged: the other orientation, width and
\* height, x and y, and the paddings of the two axes exchanged
\* (left <-> bottom, right <-> top)
SwapSelf ==
    [padding |-> <<padding[4], padding[3], padding[2], padding[1]>>,
     spacing |-> spacing,
     orientation |-> IF Horizontal THEN "vertical" ELSE "horizontal",
     size |-> <<size[2], size[1]>>,
     pos |-> <<pos[2], pos[1]>>]
Swapped == SubSeq([j \in 1..N |-> SwapWidget(children[j])], 1, N)
Reversed(seq) ==
    SubSeq([j \in 1..Len(seq) |-> seq[Len(seq) + 1 - j]], 1, Len(seq))
\* the tuple yielded for index i is the geometry of child c, axes exchanged
Mirrors(out, i, c) ==
    \E k \in DOMAIN out :
        out[k] = <<i, c.pos[2], c.pos[1], c.size[2], c.size[1]>>

\* C6 as claimed (read in its favour: the padding is exchanged with the
\* axes): the other orientation run on the axis-swapped children gives
\* every child index the axis-swapped geometry
C6_AsClaimed ==
    (Done /\ NonNegativeHints) =>
        LET out == IterateLayout(SwapSelf, Swapped).out
        IN  \A i \in 1..N : Mirrors(out, i, children[i])

\* C6 as amended: the other orientation run on the axis-swapped children in
\* reverse list order, with the padding exchanged with the axes, gives child
\* n+1-i the axis-swapped geometry of child i, and the axis-swapped minimum
\* size
C6_Symmetry ==
    (Done /\ N >= 1 /\ NonNegativeHints) =>
        LET r == IterateLayout(SwapSelf, Reversed(Swapped))
        IN  /\ \A i \in 1..N : Mirrors(r.out, N + 1 - i, children[i])
            /\ r.minimum_size = <<minimum_size[2], minimum_size[1]>>
            /\ ~r.raised

C6_Witness ==
    /\ Done /\ N = 3 /\ NonNegativeHints
    /\ padding[1] # padding[4] /\ spacing # Zero
    /\ children[1].size_hint # children[3].size_hint
    /\ \E j \in 1..N : DOMAIN children[j].pos_hint # {}
    /\ \E j \in 1..N : Positive(children[j].size_hint[Main])
    /\ \E j \in 1..N : IsNone(children[j].size_hint[Main])

\* ---- across passes and property changes
\* C4: in every step that keeps the children list (a layout pass or a change
\* of size, pos, padding, spacing or orientation), a child keeps its width
\* where its width hint is None and its height where its height hint is None
C4_FixedKept ==
    [][(Len(children') = Len(children)
          /\ \A i \in 1..N : children'[i].size_hint = children[i].size_hint)
       => \A i \in 1..N : \A a \in 1..2 :
              IsNone(children[i].size_hint[a]) =>
                  children'[i].size[a] = children[i].size[a]]_vars

\* a pass has placed fixed children that overflow a resized container
C4_Witness ==
    /\ Done /\ N = 2 /\ size # DefaultSize
    /\ RLt(size[Main], minimum_size[Main])
    /\ \E i \in 1..N :
          /\ IsNone(children[i].size_hint[Main])
          /\ IsNone(children[i].size_hint[3 - Main])
          /\ children[i].pos # <<Zero, Zero>>
    /\ \E i \in 1..N :
          /\ IsNone(children[i].size_hint[1])
          /\ ~IsNone(children[i].size_hint[2])

\* C7: a second do_layout with nothing changed since the first leaves every
\* child's position and size and the minimum size as they are
C7_Idempotent ==
    pending = 0 =>
        LET r == DoLayoutResult(Self, children)
        IN  /\ r.children = children
            /\ r.minimum_size = minimum_size
            /\ r.raised = raised

C7_Witness ==
    /\ Done /\ N = 2 /\ padding[1] # Zero /\ spacing # Zero
    /\ \E i \in 1..N :
          /\ Positive(children[i].size_hint[1])
          /\ children[i].size_hint[2] = Zero
          /\ children[i].size # <<R(50), R(40)>>
    /\ \E i \in 1..N :
          /\ IsNone(children[i].size_hint[1])
          /\ children[i].size # <<R(850), R(30)>>

====
